---- MODULE Spec2Model ----
(***************************************************************************)
(* The FortiGate topology aggregator of babylon_3d/fortigate_api_integration*)
(* .py: FortiGateAPIClient's read operations and NetworkTopologyBuilder's  *)
(* build_topology, one action per fetch step of build_topology.            *)
(*                                                                         *)
(* Python values: a dict is a function on a set of string keys (dict.get   *)
(* is Get), a list is a sequence, a str is a TLA+ string (a sequence of    *)
(* characters: \o, Len and SubSeq act on it).  Coordinates are held in     *)
(* halves, because i * 1.5 and i * 0.5 are not integers: Whole(n) is the   *)
(* coordinate n.                                                           *)
(***************************************************************************)
EXTENDS Integers, Sequences, FiniteSets, TLC

VARIABLES
    topology,     \* NetworkTopologyBuilder.topology
    pc,           \* the client call build_topology makes next, or "returned"/"aborted"
    frame,        \* the local variables of the running build_topology
    calls,        \* the client operations this invocation has made, in order
    invocations,  \* build_topology invocations on this builder so far
    babylon_data, \* the document export_to_babylon_format returned last, kept
                  \* until the builder is used again
    process,      \* the command-line program: its script, arguments,
                  \* configuration and client, what the appliance would answer
                  \* to test_connection, the steps main has taken, the files
                  \* it has written and the exit status
    enhanced      \* EnhancedFortiGateClient.get_complete_topology: what the
                  \* appliance answered, what the three list operations
                  \* gave, and the topology returned

vars == <<topology, pc, frame, calls, invocations, babylon_data, process,
          enhanced>>

---------------------------------------------------------------------------
(* Bounds of the model *)

\* a small inventory of irregular records holds SmallLen of them
SmallLen == 3
\* a large inventory holds up to ExtraLen records more than the cap of its kind
ExtraLen == 1
\* a non-empty answer to the interface request holds MaxIfaces entries
MaxIfaces == 2
\* build_topology is invoked at most MaxInvocations times on one builder
MaxInvocations == 2

(* Constants of the program *)

MaxSwitches == 10
MaxAccessPoints == 20
MaxUserDevices == 50
SwitchBandwidth == 1000
EndpointBandwidth == 100

---------------------------------------------------------------------------
(* Python built-ins *)

\* {}
EmptyDict == [k \in {} |-> 0]

\* the value dict.get(k) gives for an absent key; no string of the appliance
None == "<None>"

\* d.get(k, default)
Get(d, k, default) == IF k \in DOMAIN d THEN d[k] ELSE default

\* d[k] = v
SetKey(d, k, v) == [x \in DOMAIN d \cup {k} |-> IF x = k THEN v ELSE d[x]]

Min(a, b) == IF a < b THEN a ELSE b

\* s[:n]
Take(s, n) == SubSeq(s, 1, Min(n, Len(s)))

Digit(d) == SubSeq("0123456789", d + 1, d + 1)

\* str(i), as an f-string formats an index
RECURSIVE IntToStr(_)
IntToStr(i) == IF i < 10 THEN Digit(i) ELSE IntToStr(i \div 10) \o Digit(i % 10)

\* s.replace(old, new) for one-character old and new
RECURSIVE Replace(_, _, _)
Replace(s, old, new) ==
    IF s = "" THEN ""
    ELSE LET c == SubSeq(s, 1, 1)
         IN  (IF c = old THEN new ELSE c) \o Replace(SubSeq(s, 2, Len(s)), old, new)

Whole(n) == 2 * n

Position(x, y, z) == [x |-> x, y |-> y, z |-> z]

\* isinstance(results, dict) / isinstance(results, list): a JSON value of
\* system info carries its kind
JObject(d) == [json |-> "object", val |-> d]
JArray(s) == [json |-> "array", val |-> s]

---------------------------------------------------------------------------
(* The appliance: what one HTTP request can come back with *)

Ok(data) == [kind |-> "ok", data |-> data]
HttpError == [kind |-> "http_error", data |-> EmptyDict]
NetworkError == [kind |-> "exception", data |-> EmptyDict]
Failures == {HttpError, NetworkError}

\* what a client operation gives its caller
Returns(v) == [raised |-> FALSE, value |-> v]
Raises == [raised |-> TRUE, value |-> EmptyDict]

---------------------------------------------------------------------------
(* FortiGateAPIClient *)

\* api_client.host
Host == "192.168.1.99"

\* Every read operation catches its own exceptions and answers with an
\* empty value: none of them raises.

get_system_status(resp) ==
    IF resp.kind = "ok"
    THEN LET data == resp.data
             results == Get(data, "results", EmptyDict)
             merged == {"serial", "version", "hostname", "status"}
         IN  Returns([k \in DOMAIN results \cup merged |->
                 CASE k = "serial" ->
                        Get(data, "serial", Get(results, "serial", "Unknown"))
                   [] k = "version" ->
                        Get(data, "version", Get(results, "version", "Unknown"))
                   [] k = "hostname" ->
                        Get(results, "hostname", Get(data, "hostname", "FortiGate"))
                   [] k = "status" -> Get(data, "status", "unknown")
                   [] OTHER -> results[k]])
    ELSE Returns(EmptyDict)

get_system_info(resp) ==
    IF resp.kind = "ok" THEN Returns(resp.data) ELSE Returns(EmptyDict)

\* without the try/except: the failed request raises into build_topology
get_interfaces_unguarded(resp) ==
    IF resp.kind = "ok" THEN Returns(Get(resp.data, "results", <<>>)) ELSE Raises

get_interfaces(resp) ==
    IF resp.kind = "ok" THEN Returns(Get(resp.data, "results", <<>>)) ELSE Returns(<<>>)

get_managed_switches(resp) ==
    IF resp.kind = "ok" THEN Returns(Get(resp.data, "results", <<>>)) ELSE Returns(<<>>)

\* on a failed request: return [{}]
get_wifi_ap_list_placeholder(resp) ==
    IF resp.kind = "ok" THEN Returns(Get(resp.data, "results", <<>>))
    ELSE Returns(<<EmptyDict>>)

get_wifi_ap_list(resp) ==
    IF resp.kind = "ok" THEN Returns(Get(resp.data, "results", <<>>)) ELSE Returns(<<>>)

get_user_devices(resp) ==
    IF resp.kind = "ok" THEN Returns(Get(resp.data, "results", <<>>)) ELSE Returns(<<>>)

---------------------------------------------------------------------------
(* The responses the appliance is taken to give *)

\* GET /api/v2/monitor/system/status
StatusResponses ==
    { Ok([serial |-> "FGT60F0000000001", version |-> "v7.4.1", status |-> "success",
          results |-> [hostname |-> "fw-main", model |-> "FGT60F"]]),
      Ok([hostname |-> "fw-top", serial |-> "FGT60F0000000002",
          results |-> [hostname |-> "fw-nested", serial |-> "FGT60F0000000003",
                       version |-> "v7.2.0"]]),
      Ok([hostname |-> "fw-top", results |-> [serial |-> "FGT60F0000000003"]]),
      Ok(EmptyDict) } \cup Failures

\* GET /api/v2/cmdb/system/global
InfoResponses ==
    { Ok([results |-> JObject([platform_str |-> "FortiGate-60F"])]) } \cup Failures

\* the interface table of the appliance, read cyclically
IfaceTable ==
    << [name |-> "wan1", status |-> "up", speed |-> 1000, ip |-> "203.0.113.2"],
       [name |-> "wan2", status |-> "down", speed |-> 1000],
       [name |-> "lan", status |-> "Up", speed |-> 100],
       [name |-> "mgmt"],
       [name |-> "dmz", status |-> "UP"],
       [status |-> "up"],
       [status |-> "up", speed |-> 100] >>

\* n entries of the interface table from entry first on
IfaceList(first, n) ==
    [j \in 1..n |-> IfaceTable[((first + j - 2) % Len(IfaceTable)) + 1]]

IfaceLists ==
    {IfaceList(first, n) : first \in 1..Len(IfaceTable), n \in {0, MaxIfaces}}

\* the lengths of a large inventory: above the cap
Lens(cap) == cap + 1 .. cap + ExtraLen

\* managed switches: named ones, with a speed the builder does not read
SwitchNamed(j) ==
    [name |-> "sw" \o IntToStr(j), serial |-> "S108" \o IntToStr(j), speed |-> 10000]
\* unnamed ones behind one that is called as the builder would call the second
SwitchFallback(j) == IF j = 1 THEN [name |-> "switch_1", speed |-> 10000] ELSE EmptyDict

SwitchLists ==
    {[j \in 1..n |-> SwitchNamed(j)] : n \in Lens(MaxSwitches)}
    \cup {<<>>, [j \in 1..SmallLen |-> SwitchFallback(j)]}

\* access points: named ones with a radio, and bare records
ApNamed(j) ==
    [name |-> "ap" \o IntToStr(j), radio_1 |-> [max_bandwidth |-> 866]]
ApBare(j) ==
    IF j = 1 THEN [radio_1 |-> EmptyDict]
    ELSE IF j = 2 THEN EmptyDict
    ELSE [name |-> "ap_1", radio_1 |-> [max_bandwidth |-> 433]]

ApLists ==
    {[j \in 1..n |-> ApNamed(j)] : n \in Lens(MaxAccessPoints)}
    \cup {<<>>, [j \in 1..SmallLen |-> ApBare(j)]}

\* user devices: the first MAC is the one of the documentation
Mac(j) ==
    IF j = 1 THEN "aa:bb:cc:dd:ee:ff"
    ELSE "aa:bb:cc:dd:ee:" \o (IF j < 10 THEN "0" ELSE "") \o IntToStr(j)
UserWithMac(j) == [mac |-> Mac(j), hostname |-> "host" \o IntToStr(j)]
\* a MAC written with colons, the same MAC written with underscores, and
\* records without a MAC
UserIrregular(j) ==
    IF j = 1 THEN [mac |-> "aa:bb:cc:dd:ee:ff"]
    ELSE IF j = 2 THEN [mac |-> "aa_bb_cc_dd_ee_ff", hostname |-> "laptop"]
    ELSE EmptyDict

UserLists ==
    {[j \in 1..n |-> UserWithMac(j)] : n \in Lens(MaxUserDevices)}
    \cup {<<>>, [j \in 1..SmallLen |-> UserIrregular(j)]}

ListResponses(lists) == {Ok([results |-> l]) : l \in lists} \cup {Ok(EmptyDict)} \cup Failures

---------------------------------------------------------------------------
(* NetworkTopologyBuilder *)

\* "id": f"fortigate_{self.api_client.host}"
RootId_by_host == "fortigate_" \o Host

RootId == "fortigate_main"

\* the timestamp datetime.now().isoformat() gives
Now == "2026-01-01T00:00:00"

\* self.topology as __init__ leaves it
NewTopology ==
    [devices |-> <<>>,
     connections |-> <<>>,
     metadata |-> [last_updated |-> None, fortigate_info |-> EmptyDict]]

\* the locals of build_topology before its first statement
NewFrame ==
    [system_status |-> EmptyDict,
     system_info |-> EmptyDict,
     interfaces |-> <<>>,
     switches |-> <<>>,
     access_points |-> <<>>,
     user_devices |-> <<>>]

first_result(system_info) ==
    LET results == Get(system_info, "results", JObject(EmptyDict))
    IN  IF results.json = "object" THEN results.val
        ELSE IF results.val # <<>> THEN results.val[1]
        ELSE EmptyDict

fortigate_device(system_status, system_info) ==
    [id |-> RootId,
     name |-> Get(system_status, "hostname", "FortiGate"),
     type |-> "firewall",
     model |-> Get(system_status, "model",
                   Get(first_result(system_info), "platform_str", "Unknown")),
     serial |-> Get(system_status, "serial", "Unknown"),
     version |-> Get(system_status, "version", "Unknown"),
     ip |-> Host,
     position |-> Position(Whole(0), Whole(0), Whole(0)),
     metadata |-> [status |-> Get(system_status, "status", "unknown"),
                   cpu_usage |-> Get(system_status, "cpu_usage", 0),
                   memory_usage |-> Get(system_status, "mem_usage", 0),
                   uptime |-> Get(system_status, "uptime", 0)]]

\* iface.get('status', '').lower() == 'up'
IsUp_any_case(iface) == Get(iface, "status", None) \in {"up", "UP", "Up"}

\* iface.get('status') == 'up'
IsUp(iface) == Get(iface, "status", None) = "up"

interface_id(iface) == "interface_" \o Get(iface, "name", "unknown")

interface_device(iface) ==
    [id |-> interface_id(iface),
     name |-> Get(iface, "name", "Unknown Interface"),
     type |-> "interface",
     ip |-> Get(iface, "ip", ""),
     subnet |-> Get(iface, "subnet", ""),
     connected_to |-> RootId,
     position |-> Position(Whole(2), Whole(0), Whole(0)),
     metadata |-> [mac |-> Get(iface, "macaddr", ""),
                   mtu |-> Get(iface, "mtu", 1500),
                   speed |-> Get(iface, "speed", 0)]]

\* "target": iface.get('name', 'unknown') instead of the device's id
interface_connection_by_name(iface, device) ==
    [source |-> RootId,
     target |-> Get(iface, "name", "unknown"),
     type |-> "network",
     bandwidth |-> Get(iface, "speed", 0)]

interface_connection(iface, device) ==
    [source |-> RootId,
     target |-> device.id,
     type |-> "network",
     bandwidth |-> Get(iface, "speed", 0)]

switch_id(i, switch) == "switch_" \o Get(switch, "name", "switch_" \o IntToStr(i))

switch_device(i, switch) ==
    [id |-> switch_id(i, switch),
     name |-> Get(switch, "name", "Switch " \o IntToStr(i)),
     type |-> "switch",
     model |-> Get(switch, "model", "Unknown"),
     serial |-> Get(switch, "serial", "Unknown"),
     ip |-> Get(switch, "ip", ""),
     position |-> Position(Whole(-3), Whole(0), Whole(i * 2)),
     connected_to |-> RootId,
     metadata |-> [status |-> Get(switch, "status", "unknown"),
                   ports |-> Get(switch, "num_ports", 0),
                   firmware |-> Get(switch, "sw_version", "Unknown")]]

\* "bandwidth": switch.get('speed', 1000), as the interface loop reads it
switch_connection_by_speed(switch, device) ==
    [source |-> RootId,
     target |-> device.id,
     type |-> "network",
     bandwidth |-> Get(switch, "speed", SwitchBandwidth)]

switch_connection(switch, device) ==
    [source |-> RootId,
     target |-> device.id,
     type |-> "network",
     bandwidth |-> SwitchBandwidth]

ap_id(i, ap) == "ap_" \o Get(ap, "name", "ap_" \o IntToStr(i))

\* "z": i * 2, as the switch loop spreads its devices
ap_position_as_switches(i) == Position(Whole(3), Whole(0), Whole(i * 2))

\* {"x": 3, "y": 0, "z": i * 1.5}
ap_position(i) == Position(Whole(3), Whole(0), i * 3)

ap_device(i, ap) ==
    [id |-> ap_id(i, ap),
     name |-> Get(ap, "name", "AP " \o IntToStr(i)),
     type |-> "access_point",
     model |-> Get(ap, "model", "Unknown"),
     serial |-> Get(ap, "serial", "Unknown"),
     ip |-> Get(ap, "ip", ""),
     position |-> ap_position(i),
     connected_to |-> RootId,
     metadata |-> [status |-> Get(ap, "status", "unknown"),
                   wifi_clients |-> Get(ap, "wifi_clients", 0),
                   radio_1 |-> Get(ap, "radio_1", EmptyDict),
                   radio_2 |-> Get(ap, "radio_2", EmptyDict)]]

\* "bandwidth": 1000, the constant of the switch loop
ap_connection_fixed(ap, device) ==
    [source |-> RootId,
     target |-> device.id,
     type |-> "wifi",
     bandwidth |-> SwitchBandwidth]

ap_connection(ap, device) ==
    [source |-> RootId,
     target |-> device.id,
     type |-> "wifi",
     bandwidth |-> Get(Get(ap, "radio_1", EmptyDict), "max_bandwidth", 0)]

\* the MAC address taken as it is, without the replace
user_device_id_raw(i, device) ==
    "device_" \o Get(device, "mac", "device_" \o IntToStr(i))

user_device_id(i, device) ==
    "device_" \o Replace(Get(device, "mac", "device_" \o IntToStr(i)), ":", "_")

user_device(i, device) ==
    [id |-> user_device_id(i, device),
     name |-> Get(device, "hostname", "Device " \o IntToStr(i)),
     type |-> "endpoint",
     ip |-> Get(device, "ip", ""),
     mac |-> Get(device, "mac", ""),
     position |-> Position(Whole(5), Whole(0), i),
     connected_to |-> RootId,
     metadata |-> [os |-> Get(device, "os_type", "Unknown"),
                   user |-> Get(device, "user", "Unknown"),
                   last_seen |-> Get(device, "last_seen", ""),
                   device_type |-> Get(device, "devtype", "Unknown")]]

\* "type": "network", as the interface and switch loops have it
user_connection_network(record, device) ==
    [source |-> RootId,
     target |-> device.id,
     type |-> "network",
     bandwidth |-> EndpointBandwidth]

user_connection(record, device) ==
    [source |-> RootId,
     target |-> device.id,
     type |-> "endpoint",
     bandwidth |-> EndpointBandwidth]

\* What the loops append to devices and to connections.  A loop over
\* enumerate(xs[:n]) gives pass j (from 1) the index j - 1; each pass appends
\* the device of its record and then the connection to that device.

UpInterfaces(interfaces) == SelectSeq(interfaces, IsUp)

interface_devices(interfaces) ==
    [j \in 1..Len(UpInterfaces(interfaces)) |->
        interface_device(UpInterfaces(interfaces)[j])]

\* the interface loop making no second connection to an id it has connected
interface_connections_once(interfaces, added) ==
    LET first == {j \in 1..Len(added) :
                    \A i \in 1..(j - 1) : added[i].id # added[j].id}
        place(k) == CHOOSE j \in first :
                        Cardinality({i \in first : i < j}) = k - 1
    IN  [k \in 1..Cardinality(first) |->
            interface_connection(UpInterfaces(interfaces)[place(k)],
                                 added[place(k)])]

interface_connections(interfaces, added) ==
    [j \in 1..Len(added) |->
        interface_connection(UpInterfaces(interfaces)[j], added[j])]

\* enumerate(switches) without the [:10]
switch_devices_uncapped(switches) ==
    [j \in 1..Len(switches) |-> switch_device(j - 1, switches[j])]

switch_devices(switches) ==
    [j \in 1..Len(Take(switches, MaxSwitches)) |-> switch_device(j - 1, switches[j])]

switch_connections(switches, added) ==
    [j \in 1..Len(added) |-> switch_connection(switches[j], added[j])]

\* access_points[-20:], the last records kept instead of the first
ap_devices_from_end(access_points) ==
    LET n == Len(Take(access_points, MaxAccessPoints))
    IN  [j \in 1..n |-> ap_device(j - 1, access_points[Len(access_points) - n + j])]

ap_devices(access_points) ==
    [j \in 1..Len(Take(access_points, MaxAccessPoints)) |->
        ap_device(j - 1, access_points[j])]

ap_connections(access_points, added) ==
    [j \in 1..Len(added) |-> ap_connection(access_points[j], added[j])]

\* enumerate(user_devices) without the [:50]
user_devices_uncapped(user_devices) ==
    [j \in 1..Len(user_devices) |-> user_device(j - 1, user_devices[j])]

user_devices_added(user_devices) ==
    [j \in 1..Len(Take(user_devices, MaxUserDevices)) |->
        user_device(j - 1, user_devices[j])]

user_connections(user_devices, added) ==
    [j \in 1..Len(added) |-> user_connection(user_devices[j], added[j])]

\* the counts of the devices added instead of the lengths of the fetched lists
device_counts_capped(f) ==
    [firewall |-> 1,
     switch |-> Len(Take(f.switches, MaxSwitches)),
     access_point |-> Len(Take(f.access_points, MaxAccessPoints)),
     endpoint |-> Len(Take(f.user_devices, MaxUserDevices)),
     interface |-> Len(SelectSeq(f.interfaces, IsUp))]

device_counts(f) ==
    [firewall |-> 1,
     switch |-> Len(f.switches),
     access_point |-> Len(f.access_points),
     endpoint |-> Len(f.user_devices),
     interface |-> Len(SelectSeq(f.interfaces, IsUp))]

\* "name": device["name"] and "displayName": device["id"], the two exchanged
babylon_model_by_name(device) ==
    [name |-> device.name,
     displayName |-> device.id,
     category |-> device.type,
     position |-> device.position,
     tags |-> <<device.type>>,
     metadata |-> Get(device, "metadata", EmptyDict),
     properties |-> [ip |-> Get(device, "ip", ""),
                     model |-> Get(device, "model", ""),
                     serial |-> Get(device, "serial", "")]]

babylon_model(device) ==
    [name |-> device.id,
     displayName |-> device.name,
     category |-> device.type,
     position |-> device.position,
     tags |-> <<device.type>>,
     metadata |-> Get(device, "metadata", EmptyDict),
     properties |-> [ip |-> Get(device, "ip", ""),
                     model |-> Get(device, "model", ""),
                     serial |-> Get(device, "serial", "")]]

babylon_connection(conn) ==
    [source |-> conn.source,
     target |-> conn.target,
     type |-> conn.type,
     bandwidth |-> Get(conn, "bandwidth", 0)]

\* the loop over the devices that passes over an id it has already exported
RECURSIVE babylon_models_by_id(_)
babylon_models_by_id(devices) ==
    IF devices = <<>> THEN <<>>
    ELSE LET front == babylon_models_by_id(SubSeq(devices, 1, Len(devices) - 1))
             last == devices[Len(devices)]
         IN  IF \E k \in DOMAIN front : front[k].name = last.id
             THEN front
             ELSE Append(front, babylon_model(last))

\* for device in self.topology["devices"]: babylon_data["models"].append(model)
babylon_models(devices) ==
    [i \in DOMAIN devices |-> babylon_model(devices[i])]

\* for conn in self.topology["connections"]: ...append(connection)
babylon_connections(connections) ==
    [i \in DOMAIN connections |-> babylon_connection(connections[i])]

export_to_babylon_format(t) ==
    [version |-> "2.0",
     models |-> babylon_models(t.devices),
     connections |-> babylon_connections(t.connections),
     metadata |-> t.metadata]

Call(op, resp) == [op |-> op, ok |-> resp.kind = "ok"]

---------------------------------------------------------------------------
(* build_topology, one action per client call and the code up to the next *)

\* no command-line program is running: the builder is driven as a library
NoProcess ==
    [script |-> "",
     args |-> EmptyDict,
     config |-> EmptyDict,
     api_client |-> EmptyDict,
     answers |-> <<>>,
     requests |-> <<>>,
     logged_in |-> FALSE,
     connected |-> FALSE,
     steps |-> <<>>,
     files |-> <<>>,
     exit_status |-> 0]

\* get_complete_topology has not been called
NoCall ==
    [outcome |-> "none",
     answers |-> <<>>,
     called |-> 0,
     fortiaps |-> Raises,
     devices |-> Raises,
     interfaces |-> Raises,
     topology |-> EmptyDict]

Init ==
    /\ topology = NewTopology
    /\ pc = "get_system_status"
    /\ frame = NewFrame
    /\ calls = <<>>
    /\ invocations = 0
    /\ babylon_data = EmptyDict
    /\ process = NoProcess
    /\ enhanced = NoCall

\* system_status = self.api_client.get_system_status()
GetSystemStatus(resp) ==
    /\ pc = "get_system_status"
    /\ LET r == get_system_status(resp)
       IN  IF r.raised
           THEN pc' = "aborted" /\ frame' = frame
           ELSE /\ pc' = "get_system_info"
                /\ frame' = [frame EXCEPT !.system_status = r.value]
    /\ calls' = Append(calls, Call("get_system_status", resp))
    /\ invocations' = invocations + 1
    /\ babylon_data' = EmptyDict
    /\ UNCHANGED <<topology, process, enhanced>>

\* system_info = self.api_client.get_system_info(), then the root device
GetSystemInfo(resp) ==
    /\ pc = "get_system_info"
    /\ LET r == get_system_info(resp)
           root == fortigate_device(frame.system_status, r.value)
       IN  IF r.raised
           THEN pc' = "aborted" /\ frame' = frame /\ topology' = topology
           ELSE /\ pc' = "get_interfaces"
                /\ frame' = [frame EXCEPT !.system_info = r.value]
                /\ topology' =
                     [topology EXCEPT
                        !.devices = Append(@, root),
                        !.metadata = SetKey(@, "fortigate_info", root)]
    /\ calls' = Append(calls, Call("get_system_info", resp))
    /\ UNCHANGED <<invocations, babylon_data, process, enhanced>>

\* the interface step going on to the access points, the switch step left out
GetInterfaces_skipping_switches(resp) ==
    /\ pc = "get_interfaces"
    /\ LET r == get_interfaces(resp)
           added == interface_devices(r.value)
       IN  /\ frame' = [frame EXCEPT !.interfaces = r.value]
           /\ topology' =
                [topology EXCEPT
                   !.devices = @ \o added,
                   !.connections = @ \o interface_connections(r.value, added)]
    /\ pc' = "get_wifi_ap_list"
    /\ calls' = Append(calls, Call("get_interfaces", resp))
    /\ UNCHANGED <<invocations, babylon_data, process, enhanced>>

\* interfaces = self.api_client.get_interfaces(), then the loop over them
GetInterfaces(resp) ==
    /\ pc = "get_interfaces"
    /\ LET r == get_interfaces(resp)
       IN  IF r.raised
           THEN pc' = "aborted" /\ frame' = frame /\ topology' = topology
           ELSE /\ pc' = "get_managed_switches"
                /\ frame' = [frame EXCEPT !.interfaces = r.value]
                /\ LET added == interface_devices(r.value)
                   IN  topology' =
                         [topology EXCEPT
                            !.devices = @ \o added,
                            !.connections = @ \o interface_connections(r.value, added)]
    /\ calls' = Append(calls, Call("get_interfaces", resp))
    /\ UNCHANGED <<invocations, babylon_data, process, enhanced>>

\* switches = self.api_client.get_managed_switches(), then the loop
GetManagedSwitches(resp) ==
    /\ pc = "get_managed_switches"
    /\ LET r == get_managed_switches(resp)
       IN  IF r.raised
           THEN pc' = "aborted" /\ frame' = frame /\ topology' = topology
           ELSE /\ pc' = "get_wifi_ap_list"
                /\ frame' = [frame EXCEPT !.switches = r.value]
                /\ LET added == switch_devices(r.value)
                   IN  topology' =
                         [topology EXCEPT
                            !.devices = @ \o added,
                            !.connections = @ \o switch_connections(r.value, added)]
    /\ calls' = Append(calls, Call("get_managed_switches", resp))
    /\ UNCHANGED <<invocations, babylon_data, process, enhanced>>

\* the guarded get_wifi_ap_list() call, then the loop
GetWifiApList(resp) ==
    /\ pc = "get_wifi_ap_list"
    /\ LET r == get_wifi_ap_list(resp)
           access_points == IF r.raised THEN <<>> ELSE r.value
           added == ap_devices(access_points)
       IN  /\ frame' = [frame EXCEPT !.access_points = access_points]
           /\ topology' =
                [topology EXCEPT
                   !.devices = @ \o added,
                   !.connections = @ \o ap_connections(access_points, added)]
    /\ pc' = "get_user_devices"
    /\ calls' = Append(calls, Call("get_wifi_ap_list", resp))
    /\ UNCHANGED <<invocations, babylon_data, process, enhanced>>

\* the guarded get_user_devices() call, the loop, the metadata and the return
GetUserDevices(resp) ==
    /\ pc = "get_user_devices"
    /\ LET r == get_user_devices(resp)
           user_devices == IF r.raised THEN <<>> ELSE r.value
           added == user_devices_added(user_devices)
           f == [frame EXCEPT !.user_devices = user_devices]
       IN  /\ frame' = f
           /\ topology' =
                [topology EXCEPT
                   !.devices = @ \o added,
                   !.connections = @ \o user_connections(user_devices, added),
                   !.metadata = SetKey(SetKey(@, "last_updated", Now),
                                       "device_counts", device_counts(f))]
    /\ pc' = "returned"
    /\ calls' = Append(calls, Call("get_user_devices", resp))
    /\ UNCHANGED <<invocations, babylon_data, process, enhanced>>

\* build_topology is not running: the builder is new or has returned
Idle == pc = "returned" \/ (pc = "get_system_status" /\ calls = <<>>)

\* export_to_babylon_format that notes the export in the topology's metadata
ExportToBabylonFormat_noting ==
    /\ Idle
    /\ topology' = [topology EXCEPT !.metadata = SetKey(@, "exported", TRUE)]
    /\ babylon_data' = export_to_babylon_format(topology')
    /\ UNCHANGED <<pc, frame, calls, invocations, process, enhanced>>

\* babylon_data = builder.export_to_babylon_format()
ExportToBabylonFormat ==
    /\ Idle
    /\ babylon_data' = export_to_babylon_format(topology)
    /\ UNCHANGED <<topology, pc, frame, calls, invocations, process, enhanced>>

\* the next run of the program: a new client and a new builder
NewRun ==
    /\ pc = "returned"
    /\ topology' = NewTopology
    /\ pc' = "get_system_status"
    /\ frame' = NewFrame
    /\ calls' = <<>>
    /\ invocations' = 0
    /\ babylon_data' = EmptyDict
    /\ UNCHANGED <<process, enhanced>>

\* build_topology invoked again on the builder that has already built
InvokeAgain ==
    /\ pc = "returned"
    /\ invocations < MaxInvocations
    /\ pc' = "get_system_status"
    /\ frame' = NewFrame
    /\ calls' = <<>>
    /\ UNCHANGED <<topology, invocations, babylon_data, process, enhanced>>

Next ==
    \/ \E resp \in StatusResponses : GetSystemStatus(resp)
    \/ \E resp \in InfoResponses : GetSystemInfo(resp)
    \/ \E resp \in ListResponses(IfaceLists) : GetInterfaces(resp)
    \/ \E resp \in ListResponses(SwitchLists) : GetManagedSwitches(resp)
    \/ \E resp \in ListResponses(ApLists) : GetWifiApList(resp)
    \/ \E resp \in ListResponses(UserLists) : GetUserDevices(resp)
    \/ ExportToBabylonFormat
    \/ NewRun

Spec == Init /\ [][Next]_vars

\* build_topology on a builder that is used again: the appliance answers each
\* request with one fixed answer or with a failure
ReuseResponses(data) == {Ok(data), NetworkError}

NextReuse ==
    \/ \E resp \in ReuseResponses([serial |-> "FGT60F0000000001"]) :
          GetSystemStatus(resp)
    \/ \E resp \in {Ok(EmptyDict)} : GetSystemInfo(resp)
    \/ \E resp \in ReuseResponses([results |-> IfaceList(1, MaxIfaces)]) :
          GetInterfaces(resp)
    \/ \E resp \in ReuseResponses([results |-> <<SwitchNamed(1)>>]) :
          GetManagedSwitches(resp)
    \/ \E resp \in ReuseResponses([results |-> <<ApNamed(1)>>]) :
          GetWifiApList(resp)
    \/ \E resp \in ReuseResponses([results |-> <<UserWithMac(1)>>]) :
          GetUserDevices(resp)
    \/ InvokeAgain
    \/ NewRun

SpecReuse == Init /\ [][NextReuse]_vars

---------------------------------------------------------------------------
(* The command-line programs: run_fortigate_discovery.py and the main of
   fortigate_api_integration.py *)

Discovery == "run_fortigate_discovery"
Integration == "fortigate_api_integration"
Scripts == {Discovery, Integration}

\* status 200 with a text/html body, the login page of the appliance
HtmlPage == [kind |-> "html", data |-> EmptyDict]

\* what the appliance can answer to a request of test_connection
ConnectionResponses == {Ok(EmptyDict), HtmlPage} \cup Failures

\* the one administrator account of the appliance
ApplianceAccepts(username, password) ==
    username = "admin" /\ password = "pw-admin"

\* FORTIGATE_CONFIG as the environment of the process leaves it
Environments ==
    { [host |-> "192.168.0.254", port |-> 10443, username |-> "admin",
       password |-> "pw-admin", verify_ssl |-> FALSE],
      [host |-> "", port |-> 10443, username |-> "admin",
       password |-> "pw-admin", verify_ssl |-> TRUE],
      [host |-> "192.168.0.254", port |-> 443, username |-> "admin",
       password |-> "YOUR_PASSWORD_HERE", verify_ssl |-> TRUE] }

\* the value a flag carries when it is given on the command line
FlagValue(flag) ==
    CASE flag = "host" -> "10.0.0.1"
      [] flag = "port" -> 8443
      [] flag = "username" -> "operator"
      [] flag = "password" -> "pw-flag"

\* args of run_fortigate_discovery.py: each of --host, --port, --username
\* and --password given or not, the store_true flags always present
DiscoveryArgs ==
    { [k \in given \cup {"no_ssl_verify", "config", "create_env"} |->
          CASE k = "no_ssl_verify" -> no_ssl_verify
            [] k = "config" -> FALSE
            [] k = "create_env" -> FALSE
            [] OTHER -> FlagValue(k)] :
        given \in SUBSET {"host", "port", "username", "password"},
        no_ssl_verify \in BOOLEAN }
    \cup { [no_ssl_verify |-> FALSE, config |-> TRUE, create_env |-> FALSE],
           [no_ssl_verify |-> FALSE, config |-> FALSE, create_env |-> TRUE] }

\* args of fortigate_api_integration.py: --host, --username and --password
\* are required, --port defaults to 443
IntegrationArgs ==
    { [host |-> "192.168.0.254", username |-> "admin", password |-> password,
       port |-> port, no_ssl_verify |-> no_ssl_verify] :
        password \in {"pw-admin", "pw-wrong"},
        port \in {443, 8443},
        no_ssl_verify \in BOOLEAN }

ArgsOf(script) == IF script = Discovery THEN DiscoveryArgs ELSE IntegrationArgs

\* update_fortigate_config, given the keyword arguments that are not None
update_fortigate_config(config, given) ==
    [k \in DOMAIN config |-> IF k \in DOMAIN given THEN given[k] ELSE config[k]]

\* the keyword arguments main hands to update_fortigate_config
ConfigOverrides(args) ==
    [k \in (DOMAIN args \cap {"host", "port", "username", "password"})
            \cup {"verify_ssl"} |->
        IF k = "verify_ssl" THEN ~args.no_ssl_verify ELSE args[k]]

validate_config(config) ==
    /\ config.host # ""
    /\ config.username # ""
    /\ config.password # "YOUR_PASSWORD_HERE"

\* FortiGateAPIClient(host, username, password, port, verify_ssl): neither
\* program passes api_token, which stays None
FortiGateAPIClient(host, username, password, port, verify_ssl) ==
    [host |-> host,
     port |-> port,
     username |-> username,
     password |-> password,
     verify_ssl |-> verify_ssl,
     api_token |-> None]

\* login: the requests it makes and what it returns
login(client, resp) ==
    IF client.api_token \notin {None, ""}
    THEN [ok |-> resp.kind = "ok", requests |-> <<"system/status?vdom=root">>]
    ELSE [ok |-> FALSE, requests |-> <<>>]

\* test_connection going on to the status request whatever login returned
test_connection_without_login(client, login_resp, status_resp) ==
    LET logged_in == login(client, login_resp)
    IN  [ok |-> status_resp.kind \in {"ok", "html"},
         logged_in |-> logged_in.ok,
         requests |-> Append(logged_in.requests, "system/status")]

\* test_connection: login first, then the status request
test_connection(client, login_resp, status_resp) ==
    LET logged_in == login(client, login_resp)
    IN  IF ~logged_in.ok
        THEN [ok |-> FALSE, logged_in |-> FALSE, requests |-> logged_in.requests]
        ELSE [ok |-> status_resp.kind \in {"ok", "html"},
              logged_in |-> TRUE,
              requests |-> Append(logged_in.requests, "system/status")]

\* the process before parse_args
NewProcess(config) == [NoProcess EXCEPT !.config = config]

InitCli ==
    /\ topology = NewTopology
    /\ pc = "parse_args"
    /\ frame = NewFrame
    /\ calls = <<>>
    /\ invocations = 0
    /\ babylon_data = EmptyDict
    /\ process \in {NewProcess(config) : config \in Environments}
    /\ enhanced = NoCall

\* args = parser.parse_args()
ParseArgs(script, args) ==
    /\ pc = "parse_args"
    /\ process' = [process EXCEPT !.script = script, !.args = args]
    /\ pc' = "main"
    /\ UNCHANGED <<topology, frame, calls, invocations, babylon_data, enhanced>>

\* --create-env and --config: main returns after printing
ReturnEarly ==
    /\ pc = "main"
    /\ process.script = Discovery
    /\ process.args.create_env \/ process.args.config
    /\ process' = [process EXCEPT !.exit_status = 0]
    /\ pc' = "exited"
    /\ UNCHANGED <<topology, frame, calls, invocations, babylon_data, enhanced>>

\* update_fortigate_config(...), config = get_fortigate_config(), and
\* validate_config() with its sys.exit(1)
ConfigureDiscovery ==
    /\ pc = "main"
    /\ process.script = Discovery
    /\ ~(process.args.create_env \/ process.args.config)
    /\ LET config == update_fortigate_config(process.config,
                                             ConfigOverrides(process.args))
       IN  IF validate_config(config)
           THEN /\ process' = [process EXCEPT !.config = config]
                /\ pc' = "construct_client"
           ELSE /\ process' = [process EXCEPT !.config = config,
                                              !.exit_status = 1]
                /\ pc' = "exited"
    /\ UNCHANGED <<topology, frame, calls, invocations, babylon_data, enhanced>>

\* api_client = FortiGateAPIClient(...)
ConstructClient ==
    /\ \/ pc = "construct_client" /\ process.script = Discovery
       \/ pc = "main" /\ process.script = Integration
    /\ LET from == IF process.script = Discovery
                   THEN process.config
                   ELSE process.args
           verify_ssl == IF process.script = Discovery
                         THEN process.config.verify_ssl
                         ELSE ~process.args.no_ssl_verify
       IN  process' = [process EXCEPT !.api_client =
                          FortiGateAPIClient(from.host, from.username,
                                             from.password, from.port,
                                             verify_ssl)]
    /\ pc' = "test_connection"
    /\ UNCHANGED <<topology, frame, calls, invocations, babylon_data, enhanced>>

\* api_client.test_connection()
TestConnection(login_resp, status_resp) ==
    /\ pc = "test_connection"
    /\ LET r == test_connection(process.api_client, login_resp, status_resp)
       IN  process' = [process EXCEPT !.answers = <<login_resp.kind,
                                                    status_resp.kind>>,
                                      !.requests = r.requests,
                                      !.logged_in = r.logged_in,
                                      !.connected = r.ok,
                                      !.steps = Append(@, "test_connection")]
    /\ pc' = "tested"
    /\ UNCHANGED <<topology, frame, calls, invocations, babylon_data, enhanced>>

\* if not api_client.test_connection(): sys.exit(1) in the discovery script,
\* return in the main of fortigate_api_integration.py
ExitOnFailure ==
    /\ pc = "tested"
    /\ ~process.connected
    /\ process' = [process EXCEPT !.exit_status =
                       IF process.script = Discovery THEN 1 ELSE 0]
    /\ pc' = "exited"
    /\ UNCHANGED <<topology, frame, calls, invocations, babylon_data, enhanced>>

NextCli ==
    \/ \E script \in Scripts : \E args \in ArgsOf(script) : ParseArgs(script, args)
    \/ ReturnEarly
    \/ ConfigureDiscovery
    \/ ConstructClient
    \/ \E login_resp, status_resp \in ConnectionResponses :
          TestConnection(login_resp, status_resp)
    \/ ExitOnFailure

SpecCli == InitCli /\ [][NextCli]_vars

---------------------------------------------------------------------------
(* main from test_connection to its end, the client holding an API token or
   not: with a token test_connection can succeed and main goes on to build,
   log out and write its files *)

\* FortiGateAPIClient(..., api_token=api_token)
ClientWithToken(api_token) ==
    [FortiGateAPIClient(Host, "admin", "pw-admin", 443, FALSE)
        EXCEPT !.api_token = api_token]

Tokens == {None, "", "api-token"}

InitSession ==
    /\ topology = NewTopology
    /\ pc = "test_connection"
    /\ frame = NewFrame
    /\ calls = <<>>
    /\ invocations = 0
    /\ babylon_data = EmptyDict
    /\ process \in {[NoProcess EXCEPT !.script = script,
                                     !.api_client = ClientWithToken(api_token)] :
                       script \in Scripts, api_token \in Tokens}
    /\ enhanced = NoCall

\* main that calls build_topology whatever test_connection returned
StartBuild_untested ==
    /\ pc = "tested"
    /\ process' = [process EXCEPT !.steps = Append(@, "build_topology")]
    /\ pc' = "get_system_status"
    /\ UNCHANGED <<topology, frame, calls, invocations, babylon_data, enhanced>>

\* builder = NetworkTopologyBuilder(api_client); builder.build_topology()
StartBuild ==
    /\ pc = "tested"
    /\ process.connected
    /\ process' = [process EXCEPT !.steps = Append(@, "build_topology")]
    /\ pc' = "get_system_status"
    /\ UNCHANGED <<topology, frame, calls, invocations, babylon_data, enhanced>>

\* api_client.logout(): one request, its failure caught and logged
Logout(resp) ==
    /\ pc = "returned"
    /\ process.script \in Scripts
    /\ process' = [process EXCEPT !.requests = Append(@, "logout"),
                                   !.steps = Append(@, "logout")]
    /\ pc' = "save_topology"
    /\ UNCHANGED <<topology, frame, calls, invocations, babylon_data, enhanced>>

\* builder.save_topology(Path(topology_file))
SaveTopology ==
    /\ pc = "save_topology"
    /\ process' = [process EXCEPT
                      !.files = Append(@, [path |-> "fortinet_topology.json",
                                           content |-> topology]),
                      !.steps = Append(@, "save_topology")]
    /\ pc' = "export"
    /\ UNCHANGED <<topology, frame, calls, invocations, babylon_data, enhanced>>

\* babylon_data = builder.export_to_babylon_format(), json.dump(babylon_data,
\* f), the summary, and the end of main
ExportAndWrite ==
    /\ pc = "export"
    /\ babylon_data' = export_to_babylon_format(topology)
    /\ process' = [process EXCEPT
                      !.files = Append(@, [path |-> "babylon_topology.json",
                                           content |-> babylon_data']),
                      !.steps = Append(@, "write_babylon"),
                      !.exit_status = 0]
    /\ pc' = "exited"
    /\ UNCHANGED <<topology, frame, calls, invocations, enhanced>>

NextSession ==
    \/ \E login_resp, status_resp \in ConnectionResponses :
          TestConnection(login_resp, status_resp)
    \/ ExitOnFailure
    \/ StartBuild
    \/ \E resp \in ReuseResponses([serial |-> "FGT60F0000000001"]) :
          GetSystemStatus(resp)
    \/ \E resp \in {Ok(EmptyDict)} : GetSystemInfo(resp)
    \/ \E resp \in ReuseResponses([results |-> IfaceList(1, MaxIfaces)]) :
          GetInterfaces(resp)
    \/ \E resp \in ReuseResponses([results |-> <<SwitchNamed(1)>>]) :
          GetManagedSwitches(resp)
    \/ \E resp \in ReuseResponses([results |-> <<ApNamed(1)>>]) :
          GetWifiApList(resp)
    \/ \E resp \in ReuseResponses([results |-> <<UserWithMac(1)>>]) :
          GetUserDevices(resp)
    \/ \E resp \in ReuseResponses(EmptyDict) : Logout(resp)
    \/ SaveTopology
    \/ ExportAndWrite

SpecSession == InitSession /\ [][NextSession]_vars

---------------------------------------------------------------------------
(* EnhancedFortiGateClient *)

\* an entry of a results list that is a JSON string
JString(str) == [json |-> "string", val |-> str]

\* _make_request that lets the exception of the request through
make_request_unguarded(resp) ==
    CASE resp.kind = "ok" -> Returns(resp.data)
      [] resp.kind = "html" -> Returns([error |-> "Expecting value"])
      [] resp.kind = "http_error" ->
            Returns([error |-> "HTTP 500", text |-> ""])
      [] OTHER -> Raises

\* _make_request: the body of a 200 answer, whatever its status field, and
\* a dict with the key 'error' for any other answer and for an exception
make_request(resp) ==
    CASE resp.kind = "ok" -> Returns(resp.data)
      [] resp.kind = "html" -> Returns([error |-> "Expecting value"])
      [] resp.kind = "http_error" ->
            Returns([error |-> "HTTP 500", text |-> ""])
      [] OTHER -> Returns([error |-> "exception"])

enhanced_get_system_status(resp) == make_request(resp)

\* entry.get(...) raises AttributeError on an entry that is not a dict
AllObjects(entries) == \A i \in DOMAIN entries : entries[i].json = "object"

enhanced_ap(ap) ==
    [id |-> Get(ap, "serial", Get(ap, "name", "unknown")),
     name |-> Get(ap, "name", "Unknown"),
     serial |-> Get(ap, "serial", "Unknown"),
     model |-> Get(ap, "model", "Unknown"),
     ip |-> Get(ap, "ip", Get(ap, "connecting_from", "")),
     status |-> Get(ap, "state", "unknown"),
     profile |-> Get(ap, "ap_profile", ""),
     vdom |-> Get(ap, "vdom", "root"),
     is_local |-> Get(ap, "is_local", FALSE),
     radio_1 |-> Get(ap, "radio_1", EmptyDict),
     radio_2 |-> Get(ap, "radio_2", EmptyDict),
     wifi_clients |-> Get(ap, "wifi_clients", 0),
     ethernet_mac |-> Get(ap, "ethernet_mac", ""),
     last_seen |-> Get(ap, "last_seen", ""),
     uptime |-> Get(ap, "uptime", 0),
     cpu_usage |-> Get(ap, "cpu_usage", 0),
     memory_usage |-> Get(ap, "memory_usage", 0),
     temperature |-> Get(ap, "temperature", 0),
     metadata |-> [raw_data |-> ap]]

get_fortiaps(resp) ==
    LET made == make_request(resp)
        result == made.value
    IN  IF made.raised THEN Raises
        ELSE IF "error" \notin DOMAIN result
        THEN LET aps == Get(result, "results", <<>>)
             IN  IF AllObjects(aps)
                 THEN Returns([i \in DOMAIN aps |-> enhanced_ap(aps[i].val)])
                 ELSE Raises
        ELSE Returns(<<>>)

enhanced_device(device) ==
    [id |-> Get(device, "mac", "unknown"),
     name |-> Get(device, "hostname", Get(device, "name", "Unknown")),
     mac |-> Get(device, "mac", ""),
     ip |-> Get(device, "ip", Get(device, "ipv4", "")),
     type |-> "endpoint",
     user |-> Get(device, "user", "Unknown"),
     device_type |-> Get(device, "devtype", Get(device, "type", "Unknown")),
     os |-> Get(device, "os", "Unknown"),
     vdom |-> Get(device, "vdom", "root"),
     last_seen |-> Get(device, "last_seen", 0),
     online |-> Get(device, "online", FALSE),
     auth_user |-> Get(device, "auth_user", ""),
     auth_group |-> Get(device, "auth_group", ""),
     interface |-> Get(device, "src_intf", ""),
     traffic_stats |-> Get(device, "traffic_stats", EmptyDict),
     metadata |-> [raw_data |-> device]]

get_connected_devices(resp) ==
    LET made == make_request(resp)
        result == made.value
    IN  IF made.raised THEN Raises
        ELSE IF "error" \notin DOMAIN result
        THEN LET devices == Get(result, "results", <<>>)
             IN  IF AllObjects(devices)
                 THEN Returns([i \in DOMAIN devices |->
                                  enhanced_device(devices[i].val)])
                 ELSE Raises
        ELSE Returns(<<>>)

\* if isinstance(interface, str): interface = {'name': interface}
AsInterface(entry) ==
    IF entry.json = "string" THEN [name |-> entry.val]
    ELSE IF entry.json = "object" THEN entry.val
    ELSE EmptyDict

enhanced_interface(interface) ==
    [id |-> "interface_" \o Get(interface, "name", "unknown"),
     name |-> Get(interface, "name", "Unknown"),
     type |-> "interface",
     ip |-> Get(interface, "ip", ""),
     subnet |-> Get(interface, "subnet", ""),
     status |-> Get(interface, "status", "down"),
     mtu |-> Get(interface, "mtu", 1500),
     speed |-> Get(interface, "speed", "auto"),
     mac |-> Get(interface, "mac", ""),
     alias |-> Get(interface, "alias", ""),
     vdom |-> Get(interface, "vdom", "root"),
     role |-> Get(interface, "role", ""),
     connected_to |-> "fortigate_main",
     metadata |-> [raw_data |-> interface]]

enhanced_get_interfaces(resp) ==
    LET made == make_request(resp)
        result == made.value
    IN  IF made.raised THEN Raises
        ELSE IF "error" \notin DOMAIN result
        THEN LET interfaces == Get(result, "results", <<>>)
             IN  Returns([i \in DOMAIN interfaces |->
                            enhanced_interface(AsInterface(interfaces[i]))])
        ELSE Returns(<<>>)

enhanced_fortigate(system_status) ==
    [id |-> "fortigate_main",
     name |-> Get(system_status, "hostname", "FortiGate"),
     serial |-> Get(system_status, "serial", "Unknown"),
     version |-> Get(system_status, "version", "Unknown"),
     model |-> Get(system_status, "model", "Unknown"),
     ip |-> "192.168.0.254",
     status |-> Get(system_status, "status", "unknown"),
     uptime |-> Get(system_status, "uptime", 0),
     cpu_usage |-> Get(system_status, "cpu_usage", 0),
     memory_usage |-> Get(system_status, "memory_usage", 0)]

\* the connection loop over the access points that passes over an access
\* point without serial
enhanced_ap_connections_with_serial(fortiaps) ==
    LET with == SelectSeq(fortiaps, LAMBDA ap : ap.serial # "Unknown")
    IN  [i \in DOMAIN with |->
            [source |-> "fortigate_main", target |-> with[i].id,
             type |-> "wifi", bandwidth |-> 0]]

enhanced_ap_connections(fortiaps) ==
    [i \in DOMAIN fortiaps |->
        [source |-> "fortigate_main", target |-> fortiaps[i].id,
         type |-> "wifi", bandwidth |-> 0]]

enhanced_device_connections(devices) ==
    [i \in DOMAIN devices |->
        [source |-> "fortigate_main", target |-> devices[i].id,
         type |-> "endpoint", bandwidth |-> 100]]

enhanced_interface_connections(interfaces) ==
    [i \in DOMAIN interfaces |->
        [source |-> "fortigate_main", target |-> interfaces[i].id,
         type |-> "network", bandwidth |-> Get(interfaces[i], "speed", "auto")]]

\* the topology get_complete_topology builds from what the four operations
\* returned
complete_topology(system_status, fortiaps, devices, interfaces) ==
    [fortigate |-> enhanced_fortigate(system_status),
     fortiaps |-> fortiaps,
     devices |-> devices,
     interfaces |-> interfaces,
     connections |-> enhanced_ap_connections(fortiaps)
                     \o enhanced_device_connections(devices)
                     \o enhanced_interface_connections(interfaces),
     metadata |-> [last_updated |-> Now,
                   total_devices |-> Len(fortiaps) + Len(devices) + Len(interfaces),
                   fortiaps_count |-> Len(fortiaps),
                   endpoints_count |-> Len(devices),
                   interfaces_count |-> Len(interfaces),
                   discovery_method |-> "enhanced_fortigate_client"]]

\* what the appliance can answer to monitor/system/status
EnhancedStatusResponses ==
    { Ok([status |-> "success", serial |-> "FGT61F0000000001",
          version |-> "v7.6.4", results |-> [hostname |-> "fw-main"]]),
      Ok([status |-> "error"]),
      HtmlPage } \cup Failures

\* a 200 answer with each list of entries, with status success or not, a
\* 200 answer that carries 'error', a 200 answer that is no JSON, and the
\* failed requests
EnhancedListResponses(lists) ==
    { Ok([status |-> "success", results |-> list]) : list \in lists }
    \cup { Ok([status |-> "error", results |-> list]) : list \in lists }
    \cup { Ok([status |-> "error", error |-> "denied"]), HtmlPage }
    \cup Failures

FortiapLists ==
    { <<>>,
      << JObject([serial |-> "FP231F0000000001", name |-> "ap-lobby"]),
         JObject([name |-> "ap-hall"]) >>,
      << JObject(EmptyDict), JObject(EmptyDict) >>,
      << JString("FP231F0000000001") >> }

ConnectedDeviceLists ==
    { <<>>,
      << JObject([mac |-> "aa:bb:cc:dd:ee:ff", hostname |-> "laptop"]),
         JObject(EmptyDict) >>,
      << JString("aa:bb:cc:dd:ee:ff") >> }

EnhancedInterfaceLists ==
    { <<>>,
      << JObject([name |-> "wan1", status |-> "up", speed |-> 1000]),
         JString("lan"),
         JObject(EmptyDict) >> }

InitEnhanced ==
    /\ topology = NewTopology
    /\ pc = "get_complete_topology"
    /\ frame = NewFrame
    /\ calls = <<>>
    /\ invocations = 0
    /\ babylon_data = EmptyDict
    /\ process = NoProcess
    /\ enhanced = NoCall

\* client.get_complete_topology(): the four requests in turn and the
\* topology; an exception of a list operation leaves the method
GetCompleteTopology(status_resp, ap_resp, device_resp, interface_resp) ==
    /\ pc = "get_complete_topology"
    /\ LET system_status == enhanced_get_system_status(status_resp)
           fortiaps == get_fortiaps(ap_resp)
           devices == get_connected_devices(device_resp)
           interfaces == enhanced_get_interfaces(interface_resp)
           \* the operations the method came to before an exception left it
           called == IF system_status.raised THEN 1
                     ELSE IF fortiaps.raised THEN 2
                     ELSE IF devices.raised THEN 3
                     ELSE 4
           raised == \/ system_status.raised
                     \/ fortiaps.raised
                     \/ devices.raised
                     \/ interfaces.raised
           results == << system_status, fortiaps, devices, interfaces >>
           Result(i) == IF i <= called THEN results[i] ELSE Raises
       IN  /\ enhanced' =
                [outcome |-> IF raised THEN "raised" ELSE "returned",
                 answers |-> << status_resp.kind, ap_resp.kind,
                                device_resp.kind, interface_resp.kind >>,
                 called |-> called,
                 fortiaps |-> Result(2),
                 devices |-> Result(3),
                 interfaces |-> Result(4),
                 topology |->
                    IF raised THEN EmptyDict
                    ELSE complete_topology(system_status.value, fortiaps.value,
                                           devices.value, interfaces.value)]
           /\ pc' = IF raised THEN "raised" ELSE "topology_returned"
    /\ UNCHANGED <<topology, frame, calls, invocations, babylon_data, process>>

\* the client keeps nothing between calls: the next call starts as the
\* first did
NextCall ==
    /\ pc \in {"topology_returned", "raised"}
    /\ pc' = "get_complete_topology"
    /\ enhanced' = NoCall
    /\ UNCHANGED <<topology, frame, calls, invocations, babylon_data, process>>

NextEnhanced ==
    \/ \E status_resp \in EnhancedStatusResponses,
          ap_resp \in EnhancedListResponses(FortiapLists),
          device_resp \in EnhancedListResponses(ConnectedDeviceLists),
          interface_resp \in EnhancedListResponses(EnhancedInterfaceLists) :
          GetCompleteTopology(status_resp, ap_resp, device_resp, interface_resp)
    \/ NextCall

SpecEnhanced == InitEnhanced /\ [][NextEnhanced]_vars

---------------------------------------------------------------------------
(* What the claims speak of *)

Devices == topology.devices
Connections == topology.connections
DeviceIds == {Devices[i].id : i \in DOMAIN Devices}
CountType(t) == Cardinality({i \in DOMAIN Devices : Devices[i].type = t})
Returned == pc = "returned"

\* the client operations in the order build_topology makes them
Operations ==
    << "get_system_status", "get_system_info", "get_interfaces",
       "get_managed_switches", "get_wifi_ap_list", "get_user_devices" >>

Failed(op) == \E i \in DOMAIN calls : calls[i].op = op /\ ~calls[i].ok
Succeeded(op) == \E i \in DOMAIN calls : calls[i].op = op /\ calls[i].ok

---------------------------------------------------------------------------
\* the system status request succeeded and every other request failed
OnlyStatusSucceeded ==
    /\ Succeeded("get_system_status")
    /\ \A k \in 2..Len(Operations) : Failed(Operations[k])

(* C1: when every request fails except system status, build_topology returns
   a topology with exactly one device, the root, and no connection. *)
C1_OnlyRootWhenAllElseFails ==
    (Returned /\ OnlyStatusSucceeded) =>
        /\ Len(Devices) = 1
        /\ Devices[1].id = "fortigate_main"
        /\ Devices[1].type = "firewall"
        /\ Len(Connections) = 0

C1_Witness ==
    /\ Returned
    /\ OnlyStatusSucceeded
    /\ Len(Devices) = 1

\* the step build_topology is at, taken with a failing request
StepOnFailure ==
    \E resp \in Failures :
        \/ GetSystemStatus(resp)
        \/ GetSystemInfo(resp)
        \/ GetInterfaces(resp)
        \/ GetManagedSwitches(resp)
        \/ GetWifiApList(resp)
        \/ GetUserDevices(resp)

(* C2: every fetch step is guarded on its own: a failed request never aborts
   build_topology, the failed step contributes an empty result, the steps
   behind it are still made in order, and whatever request is next, the build
   can go on when that request fails. *)
C2_StepsIndependentlyGuarded ==
    /\ pc # "aborted"
    /\ \A i \in DOMAIN calls : i <= Len(Operations) /\ calls[i].op = Operations[i]
    /\ IF Returned THEN Len(calls) = Len(Operations)
       ELSE pc = Operations[Len(calls) + 1] /\ ENABLED StepOnFailure
    /\ Failed("get_system_status") => frame.system_status = EmptyDict
    /\ Failed("get_system_info") => frame.system_info = EmptyDict
    /\ Failed("get_interfaces") =>
          frame.interfaces = <<>> /\ CountType("interface") = 0
    /\ Failed("get_managed_switches") =>
          frame.switches = <<>> /\ CountType("switch") = 0
    /\ Failed("get_wifi_ap_list") =>
          frame.access_points = <<>> /\ CountType("access_point") = 0
    /\ Failed("get_user_devices") =>
          frame.user_devices = <<>> /\ CountType("endpoint") = 0

C2_Witness ==
    /\ Returned
    /\ Failed("get_interfaces")
    /\ Failed("get_managed_switches")
    /\ CountType("access_point") > 0
    /\ Failed("get_user_devices")

(* C3: the source and the target of every connection of the topology are ids
   of devices of the topology. *)
C3_ConnectionsReferenceDevices ==
    \A k \in DOMAIN Connections :
        /\ Connections[k].source \in DeviceIds
        /\ Connections[k].target \in DeviceIds

C3_Witness ==
    /\ Returned
    /\ CountType("interface") > 0
    /\ CountType("switch") > 0
    /\ CountType("access_point") > 0
    /\ CountType("endpoint") > 0
    /\ Len(Connections) = Len(Devices) - 1

(* C4: no two devices of the topology build_topology returns have the same
   id. *)
C4_DeviceIdsUnique ==
    Returned =>
        \A i, j \in DOMAIN Devices : i # j => Devices[i].id # Devices[j].id

\* the devices and connections of the most recent invocation alone
LatestDevices ==
    <<fortigate_device(frame.system_status, frame.system_info)>>
    \o interface_devices(frame.interfaces)
    \o switch_devices(frame.switches)
    \o ap_devices(frame.access_points)
    \o user_devices_added(frame.user_devices)

LatestConnections ==
    interface_connections(frame.interfaces, interface_devices(frame.interfaces))
    \o switch_connections(frame.switches, switch_devices(frame.switches))
    \o ap_connections(frame.access_points, ap_devices(frame.access_points))
    \o user_connections(frame.user_devices, user_devices_added(frame.user_devices))

(* C5: after any sequence of build_topology invocations the topology holds
   exactly the devices and the connections the most recent invocation
   discovered. *)
C5_LatestInvocationOnly ==
    Returned => Devices = LatestDevices /\ Connections = LatestConnections

(* C6: the topology never holds more than 10 devices of type switch, however
   many managed switches the appliance returns. *)
C6_AtMostTenSwitches == CountType("switch") <= 10

C6_Witness ==
    /\ Returned
    /\ Len(frame.switches) > 10
    /\ CountType("switch") = 10

(* C7: the topology never holds more than 20 devices of type access_point
   nor more than 50 devices of type endpoint. *)
C7_AccessPointAndEndpointCaps ==
    /\ CountType("access_point") <= 20
    /\ CountType("endpoint") <= 50

C7_Witness ==
    /\ Returned
    /\ Len(frame.access_points) > 20
    /\ CountType("access_point") = 20
    /\ Len(frame.user_devices) > 50
    /\ CountType("endpoint") = 50

\* the places of the fetched interface entries whose status is "up"
UpEntries ==
    {i \in DOMAIN frame.interfaces :
        /\ "status" \in DOMAIN frame.interfaces[i]
        /\ frame.interfaces[i].status = "up"}

(* C8: in the returned topology metadata.device_counts holds the lengths of
   the fetched lists of switches, access points and user devices, capped or
   not, the number of fetched interfaces whose status is "up", and 1 for the
   firewall. *)
C8_DeviceCountsAreRawLengths ==
    Returned =>
        LET counts == topology.metadata.device_counts
        IN  /\ counts.firewall = 1
            /\ counts.switch = Len(frame.switches)
            /\ counts.access_point = Len(frame.access_points)
            /\ counts.endpoint = Len(frame.user_devices)
            /\ counts.interface = Cardinality(UpEntries)

C8_Witness ==
    /\ Returned
    /\ topology.metadata.device_counts.switch > CountType("switch")
    /\ topology.metadata.device_counts.access_point > CountType("access_point")
    /\ topology.metadata.device_counts.endpoint > CountType("endpoint")
    /\ topology.metadata.device_counts.interface = 1
    /\ Len(frame.interfaces) > 1

\* connection c leads to a device of type t
TargetsType(c, t) ==
    \E i \in DOMAIN Devices : Devices[i].type = t /\ Devices[i].id = c.target

(* C9: every connection to a switch device has bandwidth 1000 and every
   connection of type "endpoint" has bandwidth 100, whatever the records of
   the appliance hold. *)
C9_FixedBandwidths ==
    \A k \in DOMAIN Connections :
        /\ TargetsType(Connections[k], "switch") =>
              Connections[k].bandwidth = 1000
        /\ Connections[k].type = "endpoint" =>
              Connections[k].bandwidth = 100

C9_Witness ==
    /\ Returned
    /\ \E i \in DOMAIN frame.switches :
          /\ i <= 10
          /\ "speed" \in DOMAIN frame.switches[i]
          /\ frame.switches[i].speed # 1000
    /\ \E k \in DOMAIN Connections : TargetsType(Connections[k], "switch")
    /\ \E k \in DOMAIN Connections : Connections[k].type = "endpoint"

\* the places of UpEntries in rising order
UpList == [k \in 1..Cardinality(UpEntries) |->
             CHOOSE i \in UpEntries :
                Cardinality({j \in UpEntries : j < i}) = k - 1]

IsInterface(d) == d.type = "interface"
InterfaceDevices == SelectSeq(Devices, IsInterface)

\* the interface step of this invocation is done
InterfacesFetched == Len(calls) >= 3

(* C10: an interface entry yields a device exactly when its status is the
   string "up"; the interface devices are, in order, one per such entry, the
   entry of name n giving the id "interface_" + n, and the connections from
   the root to an interface id are as many as the entries giving that id. *)
C10_InterfaceIffStatusUp ==
    InterfacesFetched =>
        /\ Len(InterfaceDevices) = Cardinality(UpEntries)
        /\ \A k \in DOMAIN InterfaceDevices :
              LET entry == frame.interfaces[UpList[k]]
                  id == InterfaceDevices[k].id
              IN  /\ "name" \in DOMAIN entry => id = "interface_" \o entry.name
                  /\ Cardinality({c \in DOMAIN Connections :
                                    /\ Connections[c].source = "fortigate_main"
                                    /\ Connections[c].target = id})
                     = Cardinality({j \in DOMAIN InterfaceDevices :
                                      InterfaceDevices[j].id = id})

C10_Witness ==
    /\ Returned
    /\ \E i \in DOMAIN frame.interfaces :
          /\ "status" \in DOMAIN frame.interfaces[i]
          /\ frame.interfaces[i].status = "UP"
    /\ \E i \in DOMAIN frame.interfaces :
          "status" \notin DOMAIN frame.interfaces[i]
    /\ Len(InterfaceDevices) = 0

IsEndpoint(d) == d.type = "endpoint"
EndpointDevices == SelectSeq(Devices, IsEndpoint)

\* the character of id that stands for the character at place p of mac
Underscored(mac, p) ==
    IF SubSeq(mac, p, p) = ":" THEN "_" ELSE SubSeq(mac, p, p)

(* C11: the id of an endpoint device is "device_" followed by the MAC address
   of its record with every ':' replaced by '_', so that the MAC
   "aa:bb:cc:dd:ee:ff" gives "device_aa_bb_cc_dd_ee_ff"; a record among the
   first 50 that has no MAC still gives a device, whose id is
   "device_device_" followed by the record's index in the list. *)
C11_EndpointIdFromMac ==
    Returned =>
        /\ Len(EndpointDevices) = Min(Len(frame.user_devices), 50)
        /\ \A k \in DOMAIN EndpointDevices :
              LET record == frame.user_devices[k]
                  id == EndpointDevices[k].id
              IN  IF "mac" \in DOMAIN record
                  THEN /\ Len(id) = Len("device_") + Len(record.mac)
                       /\ SubSeq(id, 1, Len("device_")) = "device_"
                       /\ \A p \in 1..Len(record.mac) :
                             SubSeq(id, Len("device_") + p, Len("device_") + p)
                                = Underscored(record.mac, p)
                       /\ record.mac = "aa:bb:cc:dd:ee:ff" =>
                             id = "device_aa_bb_cc_dd_ee_ff"
                  ELSE id = "device_device_" \o IntToStr(k - 1)

C11_Witness ==
    /\ Returned
    /\ \E k \in DOMAIN EndpointDevices :
          /\ "mac" \in DOMAIN frame.user_devices[k]
          /\ frame.user_devices[k].mac = "aa:bb:cc:dd:ee:ff"
          /\ EndpointDevices[k].id = "device_aa_bb_cc_dd_ee_ff"
    /\ \E k \in DOMAIN EndpointDevices :
          /\ "mac" \notin DOMAIN frame.user_devices[k]
          /\ EndpointDevices[k].id = "device_device_2"

(* C18: the first device of the topology build_topology returns is the root,
   with id "fortigate_main", type "firewall" and position (0,0,0), also when
   the system status and the system info requests failed, and no other
   device has type "firewall". *)
C18_RootDeviceFirst ==
    Returned =>
        /\ Len(Devices) >= 1
        /\ Devices[1].id = "fortigate_main"
        /\ Devices[1].type = "firewall"
        /\ Devices[1].position = [x |-> 0, y |-> 0, z |-> 0]
        /\ \A i \in 2..Len(Devices) : Devices[i].type # "firewall"

C18_Witness ==
    /\ Returned
    /\ Failed("get_system_status")
    /\ Failed("get_system_info")
    /\ Len(Devices) > 1
    /\ Devices[1].id = "fortigate_main"

IsSwitch(d) == d.type = "switch"
SwitchDevices == SelectSeq(Devices, IsSwitch)
IsAccessPoint(d) == d.type = "access_point"
AccessPointDevices == SelectSeq(Devices, IsAccessPoint)

\* the point (x, y, z) given by the doubles of its coordinates
Point(x2, y2, z2) == [x |-> x2, y |-> y2, z |-> z2]

(* C20: the position of a device is fixed by its type and its index i in the
   fetched list: every interface is at (2,0,0), the switch at index i is at
   (-3,0,2*i), the access point at index i is at (3,0,1.5*i) and the endpoint
   at index i is at (5,0,0.5*i). *)
C20_PositionByTypeAndIndex ==
    /\ \A k \in DOMAIN InterfaceDevices :
          InterfaceDevices[k].position = Point(4, 0, 0)
    /\ \A k \in DOMAIN SwitchDevices :
          /\ SwitchDevices[k].id = switch_id(k - 1, frame.switches[k])
          /\ SwitchDevices[k].position = Point(-6, 0, 4 * (k - 1))
    /\ \A k \in DOMAIN AccessPointDevices :
          /\ AccessPointDevices[k].id = ap_id(k - 1, frame.access_points[k])
          /\ AccessPointDevices[k].position = Point(6, 0, 3 * (k - 1))
    /\ \A k \in DOMAIN EndpointDevices :
          EndpointDevices[k].position = Point(10, 0, k - 1)

C20_Witness ==
    /\ Returned
    /\ Len(InterfaceDevices) > 1
    /\ Len(SwitchDevices) = 10
    /\ SwitchDevices[10].position.z = 36
    /\ Len(AccessPointDevices) = 20
    /\ AccessPointDevices[4].position.z = 9
    /\ Len(EndpointDevices) = 50
    /\ EndpointDevices[2].position.z = 1

\* the operation build_topology makes next, while it has one to make
NextOperation == Operations[Len(calls) + 1]

\* a step that changes the log of calls makes the one call that is due, the
\* calls before it having returned, or begins a new run
OneCallInOrder ==
    calls' # calls =>
        \/ /\ Len(calls) < Len(Operations)
           /\ pc = NextOperation
           /\ \E ok \in BOOLEAN :
                 calls' = Append(calls, [op |-> NextOperation, ok |-> ok])
        \/ Returned /\ calls' = <<>>

(* C15: in one run of build_topology the client read operations are made one
   after another, each exactly once, in the order system status, system
   info, interfaces, managed switches, access points, user devices: a step
   makes one call, the one that is due, after the calls before it have
   returned, and the run returns after exactly these six calls. *)
C15_FetchesInSequence ==
    /\ [][OneCallInOrder]_vars
    /\ [](Returned =>
            /\ Len(calls) = 6
            /\ \A op \in { "get_system_status", "get_system_info",
                            "get_interfaces", "get_managed_switches",
                            "get_wifi_ap_list", "get_user_devices" } :
                  Cardinality({i \in DOMAIN calls : calls[i].op = op}) = 1
            /\ calls[1].op = "get_system_status"
            /\ calls[2].op = "get_system_info"
            /\ calls[3].op = "get_interfaces"
            /\ calls[4].op = "get_managed_switches"
            /\ calls[5].op = "get_wifi_ap_list"
            /\ calls[6].op = "get_user_devices")

C15_Witness ==
    /\ Returned
    /\ Len(calls) = 6
    /\ calls[1].op = "get_system_status"
    /\ calls[6].op = "get_user_devices"
    /\ Succeeded("get_managed_switches")
    /\ Failed("get_wifi_ap_list")

\* the top-level field of the response when present, otherwise the field of
\* its "results" object when present, otherwise the default
ThreeTier(resp, field, default) ==
    IF resp.kind # "ok" THEN default
    ELSE IF field \in DOMAIN resp.data THEN resp.data[field]
    ELSE IF /\ "results" \in DOMAIN resp.data
            /\ field \in DOMAIN resp.data.results
         THEN resp.data.results[field]
    ELSE default

\* the root device carries the fields build_topology got from the client
RootCarriesStatus ==
    Len(calls) >= 2 =>
        /\ Devices[1].name = Get(frame.system_status, "hostname", "FortiGate")
        /\ Devices[1].serial = Get(frame.system_status, "serial", "Unknown")
        /\ Devices[1].version = Get(frame.system_status, "version", "Unknown")

\* the fields the client hands to build_topology follow the chain
StatusFollowsChain ==
    \A resp \in StatusResponses :
        GetSystemStatus(resp) =>
            LET status == frame'.system_status
            IN  /\ Get(status, "hostname", "FortiGate")
                     = ThreeTier(resp, "hostname", "FortiGate")
                /\ Get(status, "serial", "Unknown")
                     = ThreeTier(resp, "serial", "Unknown")
                /\ Get(status, "version", "Unknown")
                     = ThreeTier(resp, "version", "Unknown")

(* C19: the hostname, the serial and the version of the root device each
   follow the three-tier chain: the top-level field of the system status
   response when present, otherwise the same field of its nested "results"
   object when present, otherwise a literal default. *)
C19_ThreeTierFallback ==
    /\ [][StatusFollowsChain]_vars
    /\ []RootCarriesStatus

\* export_to_babylon_format has returned a document for this topology
Exported == babylon_data # EmptyDict

(* C12: export_to_babylon_format never drops or merges entries: the document
   has as many models as the topology has devices and as many connections as
   the topology has connections. *)
C12_ExportKeepsEveryEntry ==
    Exported =>
        /\ Len(babylon_data.models) = Len(Devices)
        /\ Len(babylon_data.connections) = Len(Connections)

C12_Witness ==
    /\ Exported
    /\ Returned
    /\ \E i, j \in DOMAIN Devices : i < j /\ Devices[i].id = Devices[j].id
    /\ Len(babylon_data.models) = Len(Devices)
    /\ Len(babylon_data.connections) > 0

(* C13: export_to_babylon_format keeps the order: for every index i,
   models[i] has name = devices[i].id, displayName = devices[i].name,
   category = devices[i].type, tags = [devices[i].type] and the position of
   devices[i], and connections[i] has the source, target, type and bandwidth
   of the topology's connections[i]. *)
C13_ExportPreservesOrder ==
    Exported =>
        /\ DOMAIN babylon_data.models = DOMAIN Devices
        /\ DOMAIN babylon_data.connections = DOMAIN Connections
        /\ \A i \in DOMAIN Devices :
              LET model == babylon_data.models[i]
              IN  /\ model.name = Devices[i].id
                  /\ model.displayName = Devices[i].name
                  /\ model.category = Devices[i].type
                  /\ model.tags = <<Devices[i].type>>
                  /\ model.position = Devices[i].position
        /\ \A i \in DOMAIN Connections :
              LET connection == babylon_data.connections[i]
              IN  /\ connection.source = Connections[i].source
                  /\ connection.target = Connections[i].target
                  /\ connection.type = Connections[i].type
                  /\ connection.bandwidth = Connections[i].bandwidth

C13_Witness ==
    /\ Exported
    /\ Returned
    /\ Len(babylon_data.models) > 50
    /\ babylon_data.models[1].name = "fortigate_main"
    /\ babylon_data.models[1].displayName = "fw-main"
    /\ \E i \in DOMAIN babylon_data.models :
          babylon_data.models[i].category = "access_point"
    /\ \E i \in DOMAIN babylon_data.connections :
          babylon_data.connections[i].bandwidth = 866

\* a step in which export_to_babylon_format returns a document
DocumentReturned == babylon_data' # babylon_data /\ babylon_data' # EmptyDict

(* C14: export_to_babylon_format is a pure transform: the step that returns
   the document leaves the devices, the connections and the metadata of the
   topology unchanged, and as long as the topology stays the same a further
   call returns a document equal to the one returned before. *)
C14_ExportIsPure ==
    /\ [][DocumentReturned => topology' = topology]_vars
    /\ [](Exported =>
            /\ ENABLED ExportToBabylonFormat
            /\ babylon_data = export_to_babylon_format(topology))

C14_Witness ==
    /\ Exported
    /\ Returned
    /\ Len(Devices) > 1
    /\ Len(Connections) > 0
    /\ babylon_data.metadata = topology.metadata
    /\ "device_counts" \in DOMAIN topology.metadata

\* the program has run test_connection, and it failed
ConnectivityTestFailed ==
    /\ pc \in {"tested", "exited"}
    /\ process.api_client # EmptyDict
    /\ ~process.connected

(* C16: when the connectivity test fails the command-line program never
   starts the aggregation, build_topology not being invoked, and the process
   exits with a status other than 0. *)
C16_FailedTestExitsNonZero ==
    ConnectivityTestFailed =>
        /\ invocations = 0
        /\ calls = <<>>
        /\ topology = NewTopology
        /\ pc = "exited" => process.exit_status # 0

\* test_connection has run on a client without token whose username and
\* password the appliance accepts, the appliance answering every request
\* with 200 and JSON
AcceptedPasswordClientTested ==
    /\ pc \in {"tested", "exited"}
    /\ process.api_client # EmptyDict
    /\ process.api_client.api_token = None
    /\ ApplianceAccepts(process.api_client.username,
                        process.api_client.password)
    /\ process.answers = <<"ok", "ok">>

(* C17: a client constructed with a username and a password the appliance
   accepts, and no API token, passes login and test_connection. *)
C17_PasswordClientConnects ==
    AcceptedPasswordClientTested =>
        process.logged_in /\ process.connected

\* the place among the access point devices of the device at place p
AccessPointRank(p) ==
    Cardinality({q \in 1..p : Devices[q].type = "access_point"})

\* radio_1.max_bandwidth of an access point record, 0 when either is absent
RadioBandwidth(record) ==
    IF "radio_1" \in DOMAIN record /\ "max_bandwidth" \in DOMAIN record.radio_1
    THEN record.radio_1.max_bandwidth
    ELSE 0

(* C21: the connection created for an access point has type "wifi" and the
   bandwidth radio_1.max_bandwidth of the access point's record, or 0 when
   the record has no radio_1 or radio_1 has no max_bandwidth. *)
C21_AccessPointConnections ==
    \A p \in DOMAIN Devices :
        Devices[p].type = "access_point" =>
            LET record == frame.access_points[AccessPointRank(p)]
                connection == Connections[p - 1]
            IN  /\ connection.target = Devices[p].id
                /\ connection.type = "wifi"
                /\ connection.bandwidth = RadioBandwidth(record)

C21_Witness ==
    /\ Returned
    /\ \E p \in DOMAIN Devices :
          /\ Devices[p].type = "access_point"
          /\ frame.access_points[AccessPointRank(p)] = EmptyDict
          /\ Connections[p - 1].bandwidth = 0
    /\ \E p \in DOMAIN Devices :
          /\ Devices[p].type = "access_point"
          /\ frame.access_points[AccessPointRank(p)] = [radio_1 |-> EmptyDict]
          /\ Connections[p - 1].bandwidth = 0
    /\ \E p \in DOMAIN Devices :
          /\ Devices[p].type = "access_point"
          /\ Connections[p - 1].bandwidth = 433

DeviceTypes == {"firewall", "switch", "access_point", "endpoint", "interface"}
ConnectionTypes == {"network", "wifi", "endpoint"}

(* C22: every device of the topology has one of the types firewall, switch,
   access_point, endpoint, interface and every connection one of the types
   network, wifi, endpoint; a connection has type wifi exactly when its
   target is an access point device and type endpoint exactly when its
   target is an endpoint device. *)
C22_TypesClosedAndMatched ==
    /\ \A i \in DOMAIN Devices : Devices[i].type \in DeviceTypes
    /\ \A k \in DOMAIN Connections :
          /\ Connections[k].type \in ConnectionTypes
          /\ Connections[k].type = "wifi"
                <=> TargetsType(Connections[k], "access_point")
          /\ Connections[k].type = "endpoint"
                <=> TargetsType(Connections[k], "endpoint")

C22_Witness ==
    /\ Returned
    /\ {Devices[i].type : i \in DOMAIN Devices} = DeviceTypes
    /\ {Connections[k].type : k \in DOMAIN Connections} = ConnectionTypes

\* the root device has been added
RootAdded == Len(calls) >= 2

(* C23: connections are never deduplicated and the graph is a star: there is
   one connection for every device other than the root, so that
   len(connections) = len(devices) - 1, the source of every connection is
   the root id "fortigate_main", and the root is never a target. *)
C23_StarWithoutDeduplication ==
    RootAdded =>
        /\ Len(Connections) = Len(Devices) - 1
        /\ \A k \in DOMAIN Connections :
              /\ Connections[k].source = "fortigate_main"
              /\ Connections[k].target # "fortigate_main"
              /\ Connections[k].target = Devices[k + 1].id

C23_Witness ==
    /\ Returned
    /\ \E j, k \in DOMAIN Connections :
          j # k /\ Connections[j].target = Connections[k].target
    /\ Len(Connections) = Len(Devices) - 1
    /\ Len(Connections) > 80

\* the device carries the name of the record when the record has one
Named(device, record) == "name" \in DOMAIN record => device.name = record.name

\* the numbers of devices each step is to add
InterfaceCount == Cardinality(UpEntries)
SwitchCount == IF Len(frame.switches) < 10 THEN Len(frame.switches) ELSE 10
AccessPointCount ==
    IF Len(frame.access_points) < 20 THEN Len(frame.access_points) ELSE 20
EndpointCount ==
    IF Len(frame.user_devices) < 50 THEN Len(frame.user_devices) ELSE 50

(* C24: devices and connections are lists in a fixed order: the root, then
   the up interfaces, then the switches, then the access points, then the
   endpoints, each group in the order of the fetched list; a truncated group
   holds exactly the first N records of its list; and the k-th connection
   targets the (k+1)-th device. *)
C24_FixedOrderAndPrefix ==
    Returned =>
        /\ Len(Devices) = 1 + InterfaceCount + SwitchCount
                             + AccessPointCount + EndpointCount
        /\ Devices[1].type = "firewall"
        /\ \A k \in 1..InterfaceCount :
              LET device == Devices[1 + k]
              IN  /\ device.type = "interface"
                  /\ Named(device, frame.interfaces[UpList[k]])
        /\ \A k \in 1..SwitchCount :
              LET device == Devices[1 + InterfaceCount + k]
              IN  /\ device.type = "switch"
                  /\ Named(device, frame.switches[k])
        /\ \A k \in 1..AccessPointCount :
              LET device == Devices[1 + InterfaceCount + SwitchCount + k]
              IN  /\ device.type = "access_point"
                  /\ Named(device, frame.access_points[k])
        /\ \A k \in 1..EndpointCount :
              LET device == Devices[1 + InterfaceCount + SwitchCount
                                      + AccessPointCount + k]
                  record == frame.user_devices[k]
              IN  /\ device.type = "endpoint"
                  /\ "mac" \in DOMAIN record => device.mac = record.mac
        /\ Len(Connections) = Len(Devices) - 1
        /\ \A k \in DOMAIN Connections :
              Connections[k].target = Devices[k + 1].id

C24_Witness ==
    /\ Returned
    /\ InterfaceCount = 1
    /\ Len(frame.interfaces) > 1
    /\ Len(frame.switches) > SwitchCount
    /\ Len(frame.access_points) > AccessPointCount
    /\ Len(frame.user_devices) > EndpointCount
    /\ Devices[2 + SwitchCount].name = "sw10"
    /\ Devices[2 + SwitchCount + AccessPointCount].name = "ap20"
    /\ Devices[Len(Devices)].mac = "aa:bb:cc:dd:ee:50"

\* test_connection has returned
Tested == "test_connection" \in {process.steps[i] : i \in DOMAIN process.steps}

\* the answer is an HTTP response of status 200
Status200(kind) == kind \in {"ok", "html"}

(* C25: test_connection returns true only if login returned true and the
   system status request that follows came back with HTTP 200; when login
   fails no further request is made and the result is false; an exception
   in login or in the request gives false and does not propagate: main goes
   on with the value returned. *)
C25_TestConnectionResult ==
    /\ pc # "aborted"
    /\ pc = "test_connection" =>
          ENABLED TestConnection(NetworkError, NetworkError)
    /\ Tested =>
          /\ process.connected
                <=> (process.logged_in /\ Status200(process.answers[2]))
          /\ process.logged_in =>
                /\ process.api_client.api_token \notin {None, ""}
                /\ process.answers[1] = "ok"
                /\ SubSeq(process.requests, 1, 2)
                      = <<"system/status?vdom=root", "system/status">>
          /\ ~process.logged_in =>
                /\ ~process.connected
                /\ Len(process.requests) <= 1
                /\ \A i \in DOMAIN process.requests :
                      process.requests[i] = "system/status?vdom=root"
          /\ process.answers[1] = "exception" => ~process.logged_in
          /\ process.answers[2] = "exception" => ~process.connected

C25_Witness ==
    /\ pc = "tested"
    /\ process.logged_in
    /\ process.answers = <<"ok", "exception">>
    /\ ~process.connected
    /\ Len(process.requests) = 2

\* the steps of main in the order of its code
MainSteps ==
    << "test_connection", "build_topology", "logout", "save_topology",
       "write_babylon" >>

Taken(step) == step \in {process.steps[i] : i \in DOMAIN process.steps}

\* build_topology has returned in this run
BuildReturned ==
    /\ Len(calls) = Len(Operations)
    /\ pc \in {"returned", "save_topology", "export", "exited"}

(* C26: in a run of the discovery program the steps are taken in the order
   test_connection, build_topology, logout, save topology file, write
   visualization file: build_topology is invoked only after test_connection
   returned true, logout only after build_topology returned, and no output
   file is written before logout. *)
C26_MainStepsInOrder ==
    /\ Len(process.steps) <= Len(MainSteps)
    /\ \A i \in DOMAIN process.steps : process.steps[i] = MainSteps[i]
    /\ (Taken("build_topology") \/ invocations > 0 \/ calls # <<>>) =>
          Taken("test_connection") /\ process.connected
    /\ Taken("logout") => BuildReturned
    /\ process.files # <<>> =>
          /\ Taken("logout")
          /\ process.requests[Len(process.requests)] = "logout"
    /\ \A i \in DOMAIN process.files :
          process.files[i].path
             = <<"fortinet_topology.json", "babylon_topology.json">>[i]

C26_Witness ==
    /\ pc = "exited"
    /\ process.steps = MainSteps
    /\ Len(process.files) = 2
    /\ Len(Devices) > 1

\* the run has ended, with a client whose host, username and password the
\* appliance accepts, the appliance being reachable and answering every
\* request with 200 and JSON
AcceptedRunEnded ==
    /\ pc = "exited"
    /\ process.api_client # EmptyDict
    /\ ApplianceAccepts(process.api_client.username,
                        process.api_client.password)
    /\ process.answers = <<"ok", "ok">>

(* C27: when the appliance is reachable and accepts the configured host,
   username and password, a run of the discovery program reaches
   build_topology and then writes the topology file and the visualization
   file: no such run ends without having done so. *)
C27_AcceptedRunWritesFiles ==
    AcceptedRunEnded =>
        /\ Taken("build_topology")
        /\ invocations > 0
        /\ Len(process.files) = 2

\* the step in which the discovery program applies its arguments to the
\* configuration
ConfigurationApplied ==
    /\ pc = "main"
    /\ process.script = Discovery
    /\ ~(process.args.create_env \/ process.args.config)
    /\ pc' \in {"construct_client", "exited"}

\* host, port, username and password: the flag's value with the flag, the
\* configured value without it
ValueFlagsOverride ==
    \A k \in {"host", "port", "username", "password"} :
        process'.config[k] =
            IF k \in DOMAIN process.args THEN process.args[k]
            ELSE process.config[k]

\* verify_ssl: off with --no-ssl-verify, the configured value without it
SslFlagOverrides ==
    process'.config.verify_ssl =
        IF process.args.no_ssl_verify THEN FALSE
        ELSE process.config.verify_ssl

(* C28: command-line arguments override the configuration only when they
   are supplied: for each of host, port, username, password and verify_ssl,
   a run of the discovery program without the flag leaves the configured
   value unchanged, and with the flag the effective value is the flag's. *)
C28_FlagsOverrideOnlyWhenGiven ==
    [][ConfigurationApplied => ValueFlagsOverride /\ SslFlagOverrides]_vars

\* get_complete_topology returned its topology
TopologyReturned == enhanced.outcome = "returned"

\* the ids of the entries of fortiaps, devices and interfaces
EnhancedEntryIds ==
    LET t == enhanced.topology
    IN  {t.fortiaps[i].id : i \in DOMAIN t.fortiaps}
        \cup {t.devices[i].id : i \in DOMAIN t.devices}
        \cup {t.interfaces[i].id : i \in DOMAIN t.interfaces}

(* C29: in the topology get_complete_topology returns, metadata.total_devices
   equals fortiaps_count + endpoints_count + interfaces_count and equals the
   number of connections; every connection has the source "fortigate_main"
   and a target that is the id of an entry of fortiaps, devices or
   interfaces. *)
C29_CountsAndConnectionsAgree ==
    TopologyReturned =>
        LET t == enhanced.topology
            m == t.metadata
        IN  /\ m.total_devices =
                  m.fortiaps_count + m.endpoints_count + m.interfaces_count
            /\ m.fortiaps_count = Len(t.fortiaps)
            /\ m.endpoints_count = Len(t.devices)
            /\ m.interfaces_count = Len(t.interfaces)
            /\ m.total_devices = Len(t.connections)
            /\ \A i \in DOMAIN t.connections :
                  /\ t.connections[i].source = "fortigate_main"
                  /\ t.connections[i].target \in EnhancedEntryIds

\* a topology with entries of all three kinds, two of them with the same id
C29_Witness ==
    /\ TopologyReturned
    /\ Len(enhanced.topology.fortiaps) = 2
    /\ enhanced.topology.fortiaps[1].id = enhanced.topology.fortiaps[2].id
    /\ Len(enhanced.topology.devices) = 2
    /\ Len(enhanced.topology.interfaces) = 3
    /\ Len(enhanced.topology.connections) = 7

\* the request ended in a status other than 200 or in an exception
FailedAnswers == {"http_error", "exception", "html"}

\* the operation get_complete_topology called for its i-th request, when
\* that request failed, returned the empty list
EmptyAfterFailure(i, result) ==
    enhanced.answers[i] \in FailedAnswers /\ i <= enhanced.called =>
        ~result.raised /\ Len(result.value) = 0

(* C30: the client never raises on a failed request: when a request ends in
   a non-200 status or in an exception, get_fortiaps, get_connected_devices
   and get_interfaces each return the empty list, get_complete_topology is
   left by an exception only when some list request was answered with 200,
   and when it returns its topology has the root entry "fortigate_main". *)
C30_FailedRequestsNeverRaise ==
    enhanced.outcome # "none" =>
        /\ EmptyAfterFailure(2, enhanced.fortiaps)
        /\ EmptyAfterFailure(3, enhanced.devices)
        /\ EmptyAfterFailure(4, enhanced.interfaces)
        /\ enhanced.called >= 2
        /\ enhanced.outcome = "raised" =>
              \E i \in 2..4 : enhanced.answers[i] = "ok"
        /\ (\A i \in 2..4 : enhanced.answers[i] \in FailedAnswers) =>
              /\ TopologyReturned
              /\ enhanced.topology.fortigate.id = "fortigate_main"
              /\ enhanced.topology.connections = <<>>

\* every request failed, one by its status and one by an exception, and the
\* topology came back with the root and nothing else
C30_Witness ==
    /\ TopologyReturned
    /\ \A i \in 1..4 : enhanced.answers[i] \in {"http_error", "exception"}
    /\ \E i, j \in 1..4 :
          enhanced.answers[i] = "http_error" /\ enhanced.answers[j] = "exception"
    /\ enhanced.called = 4
    /\ Len(enhanced.fortiaps.value) = 0
    /\ Len(enhanced.devices.value) = 0
    /\ Len(enhanced.interfaces.value) = 0
    /\ enhanced.topology.fortigate.id = "fortigate_main"

====
